---- MODULE Spec2Model ----
(***************************************************************************)
(* Model of the delimited-text analyzer of dom/utils/csv_preview.py.       *)
(*                                                                         *)
(* Text is modelled as a sequence of one-character strings, so that        *)
(* trimming, lower-casing, joining, substring search, integer parsing and  *)
(* integer formatting are computed character by character.                 *)
(*                                                                         *)
(* An optional value (Python's None or a value) is a sequence of length 0  *)
(* or 1: <<>> is None, <<v>> is the value v.                               *)
(*                                                                         *)
(* A roster file is a record                                               *)
(*   exists : whether the path can be opened                               *)
(*   rows   : the records csv.reader yields, each a sequence of raw fields *)
(*   bad    : 0, or the number of the first record whose bytes are not     *)
(*            valid UTF-8                                                  *)
(*   chunk  : how many records one read of the text decoder covers (the    *)
(*            decoder decodes the byte stream a buffer at a time)          *)
(*                                                                         *)
(* seen is a history variable: what an observer of the calls noted. The    *)
(* analyzer itself keeps nothing between calls. wiz holds the local        *)
(* variables of the wizard's roster steps.                                 *)
(***************************************************************************)
EXTENDS Integers, Sequences, FiniteSets, TLC

VARIABLES file, call, result, console, seen, wiz

vars == <<file, call, result, console, seen, wiz>>

---------------------------------------------------------------------------
(* Bounds of the model *)

MaxRecords == 6

MaxFaultRecords == 7

MaxChunk == 2

MaxRepeatRecords == 2

MaxWizardRecords == 6

MaxPreviewRows == 3

MaxInputLen == 4

MaxColumns == 3

(* Program constants *)

HeaderSampleRows == 5

ColumnSampleRows == 5

DefaultPreviewRows == 10

---------------------------------------------------------------------------
(* Text primitives (Python str methods used by the module) *)

Whitespace == {" ", "\t"}

UpperChars ==
  <<"A", "B", "C", "D", "E", "F", "G", "H", "I", "J", "K", "L", "M",
    "N", "O", "P", "Q", "R", "S", "T", "U", "V", "W", "X", "Y", "Z">>

LowerChars ==
  <<"a", "b", "c", "d", "e", "f", "g", "h", "i", "j", "k", "l", "m",
    "n", "o", "p", "q", "r", "s", "t", "u", "v", "w", "x", "y", "z">>

DigitChars == <<"0", "1", "2", "3", "4", "5", "6", "7", "8", "9">>

RECURSIVE lstrip_chars(_, _)
\* str.lstrip(chars): drops EVERY leading character that is in chars
lstrip_chars(s, chars) ==
  IF s # <<>> /\ Head(s) \in chars THEN lstrip_chars(Tail(s), chars) ELSE s

RECURSIVE rstrip_chars(_, _)
rstrip_chars(s, chars) ==
  IF s # <<>> /\ s[Len(s)] \in chars
    THEN rstrip_chars(SubSeq(s, 1, Len(s) - 1), chars)
    ELSE s

\* Variant: only leading whitespace is dropped
strip_leading_only(s) == lstrip_chars(s, Whitespace)

\* str.strip(): drops leading and trailing whitespace
strip(s) == rstrip_chars(lstrip_chars(s, Whitespace), Whitespace)

lower_char(c) ==
  IF \E i \in 1..Len(UpperChars) : UpperChars[i] = c
    THEN LowerChars[CHOOSE i \in 1..Len(UpperChars) : UpperChars[i] = c]
    ELSE c

\* str.lower()
lower(s) == [i \in 1..Len(s) |-> lower_char(s[i])]

RECURSIVE join(_, _)
\* sep.join(cells)
join(sep, cells) ==
  IF cells = <<>> THEN <<>>
  ELSE IF Len(cells) = 1 THEN cells[1]
  ELSE cells[1] \o sep \o join(sep, Tail(cells))

\* keyword in text
contains(text, keyword) ==
  \E i \in 0..(Len(text) - Len(keyword)) :
    SubSeq(text, i + 1, i + Len(keyword)) = keyword

RECURSIVE str(_)
\* str(n) for n >= 0: the decimal digits of n
str(n) ==
  IF n < 10 THEN <<DigitChars[n + 1]>>
  ELSE str(n \div 10) \o <<DigitChars[(n % 10) + 1]>>

---------------------------------------------------------------------------
(* Outcome of a call: a returned value or a raised exception *)

Return(v) == [ok |-> TRUE, err |-> "", val |-> v]

Raise(e) == [ok |-> FALSE, err |-> e, val |-> <<>>]

---------------------------------------------------------------------------
(* Reading the file *)

Min(a, b) == IF a < b THEN a ELSE b

\* The records the decoder has decoded once record number n has been handed
\* to the csv reader: the buffer holding record n is decoded whole.
DecodedThrough(f, n) ==
  Min(Len(f.rows), f.chunk * ((n + f.chunk - 1) \div f.chunk))

\* next(reader) for record number n raises when undecodable bytes lie in
\* the part of the file decoded so far
DecodeFails(f, n) == f.bad # 0 /\ f.bad <= DecodedThrough(f, n)

\* if max_rows: None and 0 are both falsy
Truthy(max_rows) == max_rows # <<>> /\ max_rows[1] # 0

RECURSIVE read_loop(_, _, _, _)
\* for idx, row in enumerate(reader): ...
read_loop(f, max_rows, idx, rows) ==
  IF idx >= Len(f.rows) THEN Return(rows)
  ELSE IF DecodeFails(f, idx + 1) THEN Raise("UnicodeDecodeError")
  ELSE IF Truthy(max_rows) /\ idx >= max_rows[1] THEN Return(rows)
  ELSE read_loop(f, max_rows, idx + 1,
         Append(rows, [c \in 1..Len(f.rows[idx + 1]) |->
                          strip(f.rows[idx + 1][c])]))

\* Variant: a file that cannot be opened reads as an empty one
read_csv_rows_missing_as_empty(f, max_rows) ==
  IF ~f.exists THEN Return(<<>>)
  ELSE read_loop(f, max_rows, 0, <<>>)

read_csv_rows(f, max_rows) ==
  IF ~f.exists THEN Raise("FileNotFoundError")
  ELSE read_loop(f, max_rows, 0, <<>>)

RECURSIVE count_loop_nonblank(_, _, _)
\* Variant: blank lines are not counted
count_loop_nonblank(f, idx, count) ==
  IF idx >= Len(f.rows) THEN Return(count)
  ELSE IF DecodeFails(f, idx + 1) THEN Raise("UnicodeDecodeError")
  ELSE count_loop_nonblank(f, idx + 1,
         IF f.rows[idx + 1] = <<>> THEN count ELSE count + 1)

RECURSIVE count_loop(_, _, _)
\* for _ in reader: count += 1
count_loop(f, idx, count) ==
  IF idx >= Len(f.rows) THEN Return(count)
  ELSE IF DecodeFails(f, idx + 1) THEN Raise("UnicodeDecodeError")
  ELSE count_loop(f, idx + 1, count + 1)

count_csv_rows(f) ==
  IF ~f.exists THEN Raise("FileNotFoundError")
  ELSE count_loop(f, 0, 0)

---------------------------------------------------------------------------
(* Inference over a bounded sample *)

header_keywords ==
  { <<"i", "d">>,
    <<"n", "a", "m", "e">>,
    <<"t", "e", "a", "m">>,
    <<"a", "f", "f", "i", "l", "i", "a", "t", "i", "o", "n">>,
    <<"o", "r", "g", "a", "n", "i", "z", "a", "t", "i", "o", "n">>,
    <<"c", "o", "u", "n", "t", "r", "y">>,
    <<"u", "n", "i", "v", "e", "r", "s", "i", "t", "y">>,
    <<"c", "o", "l", "l", "e", "g", "e">>,
    <<"s", "c", "h", "o", "o", "l">>,
    <<"i", "n", "s", "t", "i", "t", "u", "t", "i", "o", "n">> }

\* Variant: the cells are run together with nothing between them
first_row_blob_unspaced(first_row) ==
  join(<<>>, [i \in 1..Len(first_row) |-> lower(first_row[i])])

\* " ".join(first_row_lower)
first_row_blob(first_row) ==
  join(<<" ">>, [i \in 1..Len(first_row) |-> lower(first_row[i])])

detect_header_row(f) ==
  LET r == read_csv_rows(f, <<HeaderSampleRows>>) IN
    IF ~r.ok THEN r
    ELSE IF Len(r.val) < 2 THEN Return(FALSE)
    ELSE Return(\E keyword \in header_keywords :
                  contains(first_row_blob(r.val[1]), keyword))

RECURSIVE max_len(_)
\* max(len(row) for row in rows), rows not empty
max_len(rows) ==
  IF Len(rows) = 1 THEN Len(rows[1])
  ELSE LET m == max_len(Tail(rows)) IN
         IF Len(rows[1]) >= m THEN Len(rows[1]) ELSE m

\* Variant: the first row's length stands for the column count
get_column_count_first_row(f) ==
  LET r == read_csv_rows(f, <<ColumnSampleRows>>) IN
    IF ~r.ok THEN r
    ELSE IF r.val = <<>> THEN Return(0)
    ELSE Return(Len(r.val[1]))

get_column_count(f) ==
  LET r == read_csv_rows(f, <<ColumnSampleRows>>) IN
    IF ~r.ok THEN r
    ELSE IF r.val = <<>> THEN Return(0)
    ELSE Return(max_len(r.val))

\* Variant: the range ends at the number of data rows
auto_detect_data_range_data_count(f) ==
  LET total_rows == count_csv_rows(f) IN
    IF ~total_rows.ok THEN total_rows
    ELSE LET has_header == detect_header_row(f) IN
      IF ~has_header.ok THEN has_header
      ELSE Return(<<IF has_header.val THEN 2 ELSE 1,
                    IF has_header.val THEN total_rows.val - 1
                    ELSE total_rows.val>>)

auto_detect_data_range(f) ==
  LET total_rows == count_csv_rows(f) IN
    IF ~total_rows.ok THEN total_rows
    ELSE LET has_header == detect_header_row(f) IN
      IF ~has_header.ok THEN has_header
      ELSE Return(<<IF has_header.val THEN 2 ELSE 1, total_rows.val>>)

---------------------------------------------------------------------------
(* Preview rendering *)

\* row + [""] * (num_columns - len(row))
padded_row(row, num_columns) ==
  row \o [i \in 1..(num_columns - Len(row)) |-> <<>>]

\* A column label f"{name} (Col {n})", f"Col {n}", f"Column {n}" or name:
\* the header text, the word before the number, and the number as printed.
ColLabel(name, word, number) ==
  [name |-> name, word |-> word, number |-> number]

header_columns(first_row, num_columns, show_column_numbers) ==
  [i \in 1..Len(first_row) |->
     IF show_column_numbers
       THEN ColLabel(first_row[i], "Col", str(i))
       ELSE ColLabel(first_row[i], "", <<>>)]
  \o
  [j \in 1..(num_columns - Len(first_row)) |->
     ColLabel(<<>>, IF show_column_numbers THEN "Col" ELSE "Column",
              str(Len(first_row) + j))]

generic_columns(num_columns, show_column_numbers) ==
  [i \in 1..num_columns |->
     ColLabel(<<>>, IF show_column_numbers THEN "Col" ELSE "Column", str(i))]

\* table.add_row(str(row_idx), *padded_row) for enumerate(rows, start)
table_rows(rows, start, num_columns) ==
  [i \in 1..Len(rows) |->
     [label |-> str(start + i - 1), cells |-> padded_row(rows[i], num_columns)]]

\* What a call returns and what it prints
Outcome(r, printed) == [ret |-> r, printed |-> printed]

\* Variant: the flag in force is returned for an empty sample too
empty_preview_keeps_flag(has_header) ==
  Outcome(Return(has_header), << [kind |-> "warning"] >>)

\* if not rows: the warning is printed and False returned
empty_preview(has_header) ==
  Outcome(Return(FALSE), << [kind |-> "warning"] >>)

\* Variant: the data rows under a header are numbered from 1
header_data_rows_from_one(rows, num_columns) ==
  table_rows(Tail(rows), 1, num_columns)

\* for row_idx, row in enumerate(rows[1:], start=2)
header_data_rows(rows, num_columns) ==
  table_rows(Tail(rows), 2, num_columns)

\* for row_idx, row in enumerate(rows, start=1)
plain_data_rows(rows, num_columns) ==
  table_rows(rows, 1, num_columns)

\* The table built from a non-empty sample
render_table(rows, total_rows, has_header, show_column_numbers) ==
  LET num_columns == max_len(rows) IN
    [kind |-> "table", shown |-> Len(rows), total |-> total_rows,
     columns |-> IF has_header
                   THEN header_columns(rows[1], num_columns,
                                       show_column_numbers)
                   ELSE generic_columns(num_columns, show_column_numbers),
     rows |-> IF has_header
                THEN header_data_rows(rows, num_columns)
                ELSE plain_data_rows(rows, num_columns)]

preview_csv(f, max_rows, show_column_numbers, has_header) ==
  LET r == read_csv_rows(f, <<max_rows>>) IN
  IF ~r.ok THEN Outcome(r, <<>>)
  ELSE
  LET total_rows == count_csv_rows(f) IN
  IF ~total_rows.ok THEN Outcome(total_rows, <<>>)
  ELSE
  LET detected == IF has_header = <<>> THEN detect_header_row(f)
                  ELSE Return(has_header[1]) IN
  IF ~detected.ok THEN Outcome(detected, <<>>)
  ELSE IF r.val = <<>> THEN empty_preview(detected.val)
  ELSE Outcome(Return(detected.val),
               << render_table(r.val, total_rows.val, detected.val,
                               show_column_numbers) >>)

---------------------------------------------------------------------------
(* Column references *)

IsDigit(c) == \E i \in 1..Len(DigitChars) : DigitChars[i] = c

DigitValue(c) == (CHOOSE i \in 1..Len(DigitChars) : DigitChars[i] = c) - 1

RECURSIVE digits_value(_, _)
\* the value of a digit string, underscores skipped
digits_value(d, acc) ==
  IF d = <<>> THEN acc
  ELSE IF Head(d) = "_" THEN digits_value(Tail(d), acc)
  ELSE digits_value(Tail(d), 10 * acc + DigitValue(Head(d)))

\* digits, with single underscores allowed between two digits
well_formed_digits(d) ==
  /\ d # <<>>
  /\ \A i \in 1..Len(d) :
       \/ IsDigit(d[i])
       \/ /\ d[i] = "_"
          /\ 1 < i /\ i < Len(d)
          /\ IsDigit(d[i - 1]) /\ IsDigit(d[i + 1])

\* int(text): surrounding whitespace ignored, an optional sign, decimal
\* digits; <<>> stands for ValueError
int(text) ==
  LET t == strip(text)
      signed == t # <<>> /\ Head(t) \in {"+", "-"}
      d == IF signed THEN Tail(t) ELSE t
  IN IF ~well_formed_digits(d) THEN <<>>
     ELSE IF signed /\ Head(t) = "-" THEN << 0 - digits_value(d, 0) >>
     ELSE << digits_value(d, 0) >>

validate_column_index(column_str, num_columns) ==
  LET s == lstrip_chars(strip(column_str), {"$"})
      col_idx == int(s)
  IN IF col_idx = <<>>
       THEN Outcome(Return(<<>>), << [kind |-> "invalid", text |-> s] >>)
     ELSE IF 1 <= col_idx[1] /\ col_idx[1] <= num_columns
       THEN Outcome(Return(<< col_idx[1] >>), <<>>)
     ELSE Outcome(Return(<<>>),
                  << [kind |-> "out_of_range", column |-> col_idx[1],
                      columns |-> num_columns] >>)

---------------------------------------------------------------------------
(* The files of the model *)

\* Raw records: a header-like record with padded, mixed-case cells and inner
\* whitespace; a record whose adjacent cells spell a keyword only when run
\* together; and a blank line (a record of no cells).
RowKinds ==
  { << <<"\t", "I", "d">>, <<"x", " ", "y", " ">> >>,
    << <<"i">>, <<"d">>, <<" ", "7">> >>,
    <<>> }

RowSeqs == UNION { [1..n -> RowKinds] : n \in 0..MaxRecords }

ValidFiles ==
  { [exists |-> TRUE, rows |-> r, bad |-> 0, chunk |-> 1] : r \in RowSeqs }

\* Files that cannot be opened or that hold undecodable bytes, beside the
\* sound ones
FaultRowKinds ==
  { << <<"\t", "I", "d">>, <<"x", " ", "y", " ">> >>,
    <<>> }

FaultRowSeqs == UNION { [1..n -> FaultRowKinds] : n \in 0..MaxFaultRecords }

MissingFile == [exists |-> FALSE, rows |-> <<>>, bad |-> 0, chunk |-> 1]

FaultFiles ==
  { MissingFile }
  \cup { [exists |-> TRUE, rows |-> r, bad |-> 0, chunk |-> 1] :
           r \in FaultRowSeqs }
  \cup UNION { { [exists |-> TRUE, rows |-> r, bad |-> b, chunk |-> c] :
                   b \in 1..Len(r), c \in 1..MaxChunk } : r \in FaultRowSeqs }

InputChars == {" ", "$", "0", "1", "2", "-", "a"}

ColumnInputs == UNION { [1..n -> InputChars] : n \in 0..MaxInputLen }

MaxRowsArgs == { <<>> } \cup { <<k>> : k \in 0..MaxRecords }

PreviewRowsArgs == (0..MaxPreviewRows) \cup {DefaultPreviewRows}

HeaderArgs == { <<>>, <<TRUE>>, <<FALSE>> }

---------------------------------------------------------------------------
(* Calls: the caller invokes one operation on the file, receives its      *)
(* outcome, and is then free to invoke the next.                          *)

\* Variant: the file is opened for writing, which empties it
after_read_truncated(f) == [f EXCEPT !.rows = <<>>]

\* The file as a call leaves it: every call opens it for reading only and
\* closes it on exit
after_read(f) == f

\* What an observer of the calls has noted: the file as first seen, the
\* first call it remembered with its outcome, and whether a different call
\* has been made since
NothingSeen(f) == [file |-> f, first |-> <<>>, between |-> FALSE]

\* No wizard session in progress
NoWizard == [pc |-> "off"]

NoCall == [op |-> "none"]

Idle == call = NoCall

Init ==
  /\ file \in ValidFiles
  /\ call = NoCall
  /\ result = Return(<<>>)
  /\ console = <<>>
  /\ seen = NothingSeen(file)
  /\ wiz = NoWizard

ReadCsvRows ==
  /\ Idle
  /\ \E max_rows \in MaxRowsArgs :
       /\ call' = [op |-> "read_csv_rows", max_rows |-> max_rows]
       /\ result' = read_csv_rows(file, max_rows)
  /\ console' = <<>>
  /\ file' = after_read(file)
  /\ UNCHANGED <<seen, wiz>>

CountCsvRows ==
  /\ Idle
  /\ call' = [op |-> "count_csv_rows"]
  /\ result' = count_csv_rows(file)
  /\ console' = <<>>
  /\ file' = after_read(file)
  /\ UNCHANGED <<seen, wiz>>

DetectHeaderRow ==
  /\ Idle
  /\ call' = [op |-> "detect_header_row"]
  /\ result' = detect_header_row(file)
  /\ console' = <<>>
  /\ file' = after_read(file)
  /\ UNCHANGED <<seen, wiz>>

GetColumnCount ==
  /\ Idle
  /\ call' = [op |-> "get_column_count"]
  /\ result' = get_column_count(file)
  /\ console' = <<>>
  /\ file' = after_read(file)
  /\ UNCHANGED <<seen, wiz>>

AutoDetectDataRange ==
  /\ Idle
  /\ call' = [op |-> "auto_detect_data_range"]
  /\ result' = auto_detect_data_range(file)
  /\ console' = <<>>
  /\ file' = after_read(file)
  /\ UNCHANGED <<seen, wiz>>

PreviewCsv ==
  /\ Idle
  /\ \E max_rows \in PreviewRowsArgs, show \in BOOLEAN, hdr \in HeaderArgs :
       LET out == preview_csv(file, max_rows, show, hdr) IN
         /\ call' = [op |-> "preview_csv", max_rows |-> max_rows,
                     show_column_numbers |-> show, has_header |-> hdr]
         /\ result' = out.ret
         /\ console' = out.printed
  /\ file' = after_read(file)
  /\ UNCHANGED <<seen, wiz>>

\* The caller has taken the outcome; the analyzer keeps nothing of the call.
Returned ==
  /\ ~Idle
  /\ call' = NoCall
  /\ result' = Return(<<>>)
  /\ console' = <<>>
  /\ UNCHANGED file
  /\ UNCHANGED <<seen, wiz>>

Next ==
  \/ ReadCsvRows
  \/ CountCsvRows
  \/ DetectHeaderRow
  \/ GetColumnCount
  \/ AutoDetectDataRange
  \/ PreviewCsv
  \/ Returned

Spec == Init /\ [][Next]_vars

\* The same calls on files that may be missing or undecodable
InitFault ==
  /\ file \in FaultFiles
  /\ call = NoCall
  /\ result = Return(<<>>)
  /\ console = <<>>
  /\ seen = NothingSeen(file)
  /\ wiz = NoWizard

SpecFault == InitFault /\ [][Next]_vars

\* Column references typed by a user, checked against a column count
InitValidate ==
  /\ file = [exists |-> TRUE, rows |-> <<>>, bad |-> 0, chunk |-> 1]
  /\ call = NoCall
  /\ result = Return(<<>>)
  /\ console = <<>>
  /\ seen = NothingSeen(file)
  /\ wiz = NoWizard

ValidateColumnIndex ==
  /\ Idle
  /\ \E column_str \in ColumnInputs, num_columns \in 0..MaxColumns :
       LET out == validate_column_index(column_str, num_columns) IN
         /\ call' = [op |-> "validate_column_index",
                     column_str |-> column_str, num_columns |-> num_columns]
         /\ result' = out.ret
         /\ console' = out.printed
  /\ UNCHANGED file
  /\ UNCHANGED <<seen, wiz>>

NextValidate ==
  \/ ValidateColumnIndex
  \/ Returned

SpecValidate == InitValidate /\ [][NextValidate]_vars

\* Repeated calls on one unchanged file, watched by an observer that
\* remembers the first call it picks and its outcome
RepeatFiles ==
  { MissingFile }
  \cup { [exists |-> TRUE, rows |-> r, bad |-> 0, chunk |-> 1] :
           r \in UNION { [1..n -> RowKinds] : n \in 0..MaxRepeatRecords } }

InitRepeat ==
  /\ file \in RepeatFiles
  /\ call = NoCall
  /\ result = Return(<<>>)
  /\ console = <<>>
  /\ seen = NothingSeen(file)
  /\ wiz = NoWizard

Remember ==
  /\ ~Idle
  /\ seen.first = <<>>
  /\ seen' = [seen EXCEPT !.first = << [call |-> call, result |-> result,
                                        console |-> console] >>]
  /\ UNCHANGED <<file, call, result, console, wiz>>

NoteOtherCall ==
  /\ ~Idle
  /\ seen.first # <<>>
  /\ ~seen.between
  /\ call # seen.first[1].call
  /\ seen' = [seen EXCEPT !.between = TRUE]
  /\ UNCHANGED <<file, call, result, console, wiz>>

NextRepeat ==
  \/ Next
  \/ Remember
  \/ NoteOtherCall

SpecRepeat == InitRepeat /\ [][NextRepeat]_vars

---------------------------------------------------------------------------
(* The wizard's roster steps (initialize_contest, from the CSV preview to  *)
(* the detected row range). wiz holds the wizard's local variables and pc, *)
(* the step it is at; last is the latest column answer and what            *)
(* validate_column_index made of it.                                       *)

WizardStart ==
  [pc |-> "preview", has_header |-> FALSE, shown |-> 0, num_columns |-> 0,
   name_column |-> <<>>, affiliation_column |-> <<>>,
   country_column |-> <<>>, last |-> <<>>, start_row |-> 0, end_row |-> 0]

\* Roster files of the wizard: records of two or three cells, and one file
\* that cannot be decoded
WizardRowKinds ==
  { << <<"\t", "I", "d">>, <<"x", " ", "y", " ">> >>,
    << <<"i">>, <<"d">>, <<" ", "7">> >> }

WizardFiles ==
  { [exists |-> TRUE, rows |-> r, bad |-> 0, chunk |-> 1] :
      r \in UNION { [1..n -> WizardRowKinds] : n \in 0..MaxWizardRecords } }
  \cup { [exists |-> TRUE, rows |-> << <<>> >>, bad |-> 1, chunk |-> 1] }

\* What ask returns for a column prompt: the typed text, stripped; the
\* name and affiliation prompts take no empty answer
ColumnAnswers ==
  { <<"1">>, <<"2">>, <<"3">>, <<"0">>, <<"$", "2">>, <<"x">> }

OptionalColumnAnswers == ColumnAnswers \cup { <<>> }

\* The number of column labels of the table a preview printed (none when it
\* printed the empty-file warning)
columns_shown(printed) ==
  IF printed # <<>> /\ printed[1].kind = "table"
    THEN Len(printed[1].columns)
    ELSE 0

\* Variant: the prompt is asked once, whatever the validator returned
after_column_prompt_once(value, here, there) == there

\* while <column> is None: the step after a name or affiliation answer
after_column_prompt(value, here, there) ==
  IF value = <<>> THEN here ELSE there

\* while country_column is None and country_input
after_country_prompt(value, input, here, there) ==
  IF value = <<>> /\ input # <<>> THEN here ELSE there

InitWizard ==
  /\ file \in WizardFiles
  /\ call = NoCall
  /\ result = Return(<<>>)
  /\ console = <<>>
  /\ seen = NothingSeen(file)
  /\ wiz = WizardStart

\* has_header = preview_csv(teams_file_path, delimiter, max_rows=10,
\*                          show_column_numbers=True)
ShowPreview ==
  /\ wiz.pc = "preview"
  /\ LET out == preview_csv(file, DefaultPreviewRows, TRUE, <<>>) IN
       /\ console' = out.printed
       /\ wiz' = IF ~out.ret.ok THEN [wiz EXCEPT !.pc = "failed"]
                 ELSE [wiz EXCEPT !.pc = "confirm_header",
                                  !.has_header = out.ret.val,
                                  !.shown = columns_shown(out.printed)]
  /\ file' = after_read(file)
  /\ UNCHANGED <<call, result, seen>>

\* The header question, the second preview when the answer overturns the
\* detected flag, and num_columns = get_column_count(...)
ConfirmHeader ==
  /\ wiz.pc = "confirm_header"
  /\ \E answer \in BOOLEAN :
       LET overturned == answer # wiz.has_header
           out == IF overturned
                    THEN preview_csv(file, DefaultPreviewRows, TRUE,
                                     <<answer>>)
                    ELSE Outcome(Return(answer), console)
           num_columns == get_column_count(file)
       IN /\ console' = out.printed
          /\ wiz' = IF ~out.ret.ok \/ ~num_columns.ok
                      THEN [wiz EXCEPT !.pc = "failed"]
                      ELSE [wiz EXCEPT !.pc = "name_column",
                                       !.has_header = answer,
                                       !.shown = columns_shown(out.printed),
                                       !.num_columns = num_columns.val]
  /\ file' = after_read(file)
  /\ UNCHANGED <<call, result, seen>>

AskNameColumn ==
  /\ wiz.pc = "name_column"
  /\ \E name_input \in ColumnAnswers :
       LET out == validate_column_index(name_input, wiz.num_columns) IN
         /\ console' = out.printed
         /\ wiz' = [wiz EXCEPT
                      !.name_column = out.ret.val,
                      !.last = << [input |-> name_input,
                                   value |-> out.ret.val] >>,
                      !.pc = after_column_prompt(out.ret.val, "name_column",
                                                 "affiliation_column")]
  /\ UNCHANGED <<file, call, result, seen>>

AskAffiliationColumn ==
  /\ wiz.pc = "affiliation_column"
  /\ \E affiliation_input \in ColumnAnswers :
       LET out == validate_column_index(affiliation_input, wiz.num_columns)
       IN
         /\ console' = out.printed
         /\ wiz' = [wiz EXCEPT
                      !.affiliation_column = out.ret.val,
                      !.last = << [input |-> affiliation_input,
                                   value |-> out.ret.val] >>,
                      !.pc = after_column_prompt(out.ret.val,
                                                 "affiliation_column",
                                                 "country_column")]
  /\ UNCHANGED <<file, call, result, seen>>

\* The optional country prompt: an empty answer skips it, any other answer
\* is validated and asked again until it is valid or empty
AskCountryColumn ==
  /\ wiz.pc = "country_column"
  /\ \E country_input \in OptionalColumnAnswers :
       LET out == IF country_input # <<>>
                    THEN validate_column_index(country_input,
                                               wiz.num_columns)
                    ELSE Outcome(Return(<<>>), <<>>)
       IN
         /\ console' = out.printed
         /\ wiz' = [wiz EXCEPT
                      !.country_column = out.ret.val,
                      !.last = IF country_input # <<>>
                                 THEN << [input |-> country_input,
                                          value |-> out.ret.val] >>
                                 ELSE <<>>,
                      !.pc = after_country_prompt(out.ret.val, country_input,
                                                  "country_column",
                                                  "row_range")]
  /\ UNCHANGED <<file, call, result, seen>>

\* total_rows = count_csv_rows(...); start_row = 2 if has_header else 1
DetectRowRange ==
  /\ wiz.pc = "row_range"
  /\ LET total_rows == count_csv_rows(file) IN
       wiz' = IF ~total_rows.ok THEN [wiz EXCEPT !.pc = "failed"]
              ELSE [wiz EXCEPT !.pc = "rows_confirm",
                               !.last = <<>>,
                               !.start_row = IF wiz.has_header THEN 2 ELSE 1,
                               !.end_row = total_rows.val]
  /\ console' = <<>>
  /\ file' = after_read(file)
  /\ UNCHANGED <<call, result, seen>>

NextWizard ==
  \/ ShowPreview
  \/ ConfirmHeader
  \/ AskNameColumn
  \/ AskAffiliationColumn
  \/ AskCountryColumn
  \/ DetectRowRange

SpecWizard == InitWizard /\ [][NextWizard]_vars

---------------------------------------------------------------------------
(* Vocabulary of the properties, stated on the raw file *)

NumRecords == Len(file.rows)

\* A field with its surrounding whitespace removed: the span from its first
\* to its last character that is not whitespace
Trimmed(field) ==
  LET solid == { i \in 1..Len(field) : field[i] \notin Whitespace } IN
    IF solid = {} THEN <<>>
    ELSE SubSeq(field,
                CHOOSE i \in solid : \A j \in solid : i <= j,
                CHOOSE i \in solid : \A j \in solid : j <= i)

TrimmedRecord(n) ==
  [c \in 1..Len(file.rows[n]) |-> Trimmed(file.rows[n][c])]

FirstRecords(k) == [n \in 1..k |-> TrimmedRecord(n)]

\* The largest cell count among the first k records, 0 for k = 0
WidestAmong(k) ==
  IF k = 0 THEN 0
  ELSE CHOOSE w \in { Len(file.rows[n]) : n \in 1..k } :
         \A n \in 1..k : Len(file.rows[n]) <= w

\* A column reference read with ONE optional leading marker
OneMarkerColumn(column_str, num_columns) ==
  LET t == Trimmed(column_str)
      body == IF t # <<>> /\ t[1] = "$" THEN SubSeq(t, 2, Len(t)) ELSE t
      k == int(body)
  IN IF k # <<>> /\ 1 <= k[1] /\ k[1] <= num_columns THEN k ELSE <<>>

---------------------------------------------------------------------------
(* C1 *)

\* C1: validate_column_index never raises, and returns k exactly when the
\* input, trimmed and with one optional leading '$' removed, parses as an
\* integer k with 1 <= k <= num_columns; otherwise it returns None.
C1_OneMarkerOnly ==
  call.op = "validate_column_index" =>
    /\ result.ok
    /\ result.val = OneMarkerColumn(call.column_str, call.num_columns)

\* A reference with two markers is accepted
C1_TwoMarkersAccepted ==
  /\ call.op = "validate_column_index"
  /\ call.column_str = <<"$", "$", "2">>
  /\ result = Return(<<2>>)

---------------------------------------------------------------------------
(* C2 *)

\* C2: read_csv_rows with max_rows >= 0 supplied returns exactly the first
\* min(max_rows, N) records in file order, and all N records when max_rows
\* is not supplied.
C2_ReadFirstMin ==
  call.op = "read_csv_rows" =>
    /\ result.ok
    /\ result.val =
         FirstRecords(IF call.max_rows = <<>> THEN NumRecords
                      ELSE Min(call.max_rows[1], NumRecords))

\* max_rows = 0 on a file with records returns every record
C2_ZeroReadsAll ==
  /\ call.op = "read_csv_rows"
  /\ call.max_rows = <<0>>
  /\ NumRecords >= 2
  /\ result.ok /\ Len(result.val) = NumRecords

---------------------------------------------------------------------------
(* C3 *)

\* C3: count_csv_rows returns exactly N, the number of records of the whole
\* file (0 for an empty file, never an error), and read_csv_rows with
\* max_rows = N returns exactly the N records of the file.
C3_CountAndFullRead ==
  /\ call.op = "count_csv_rows" => result = Return(NumRecords)
  /\ (call.op = "read_csv_rows" /\ call.max_rows = <<NumRecords>>) =>
       /\ result.ok
       /\ Len(result.val) = NumRecords
       /\ result.val = FirstRecords(NumRecords)

C3_Witness ==
  /\ call.op = "read_csv_rows"
  /\ call.max_rows = <<NumRecords>>
  /\ NumRecords >= 3
  /\ \E n \in 1..NumRecords : file.rows[n] = <<>>
  /\ result.ok /\ Len(result.val) = NumRecords

---------------------------------------------------------------------------
(* C4 *)

\* C4: get_column_count returns the maximum cell count among the first
\* min(5, N) records (0 when N = 0); records after the fifth have no
\* influence.
C4_WidestOfFirstFive ==
  call.op = "get_column_count" =>
    result = Return(WidestAmong(Min(5, NumRecords)))

\* A sixth record wider than the first five, whose widest is not the first
C4_Witness ==
  /\ call.op = "get_column_count"
  /\ NumRecords >= 6
  /\ Len(file.rows[6]) > result.val
  /\ result.val > Len(file.rows[1])

---------------------------------------------------------------------------
(* C5 *)

RECURSIVE Glued(_, _)
\* The cells one after another, sep between neighbours
Glued(cells, sep) ==
  IF cells = <<>> THEN <<>>
  ELSE IF Len(cells) = 1 THEN cells[1]
  ELSE Glued(SubSeq(cells, 1, Len(cells) - 1), sep) \o sep
         \o cells[Len(cells)]

LoweredFirstRecord ==
  [c \in 1..Len(file.rows[1]) |-> lower(Trimmed(file.rows[1][c]))]

HasKeyword(text) ==
  \E kw \in header_keywords :
    \E i \in 1..Len(text) :
      /\ i + Len(kw) - 1 <= Len(text)
      /\ \A j \in 1..Len(kw) : text[i + j - 1] = kw[j]

---------------------------------------------------------------------------
(* C6 *)

\* C6: auto_detect_data_range returns (2 if detect_header_row else 1,
\* count_csv_rows): the range ends at the total number of records, and an
\* empty file gives (1, 0) as a normal value.
C6_RangeComposition ==
  call.op = "auto_detect_data_range" =>
    /\ result = Return(<<IF detect_header_row(file).val THEN 2 ELSE 1,
                         count_csv_rows(file).val>>)
    /\ result.val[2] = NumRecords
    /\ NumRecords = 0 => result = Return(<<1, 0>>)

C6_Witness ==
  /\ call.op = "auto_detect_data_range"
  /\ NumRecords >= 3
  /\ result = Return(<<2, NumRecords>>)

---------------------------------------------------------------------------
(* C7 *)

\* C7: preview_csv returns the effective header flag: false on an empty
\* file whatever the override, and on a non-empty file the override when one
\* is given, else the result of detect_header_row. It never raises on an
\* empty file.
C7_EffectiveHeaderFlag ==
  call.op = "preview_csv" =>
    result = Return(IF NumRecords = 0 THEN FALSE
                    ELSE IF call.has_header # <<>> THEN call.has_header[1]
                    ELSE detect_header_row(file).val)

\* An empty file previewed with the override set to true
C7_Witness ==
  /\ call.op = "preview_csv"
  /\ NumRecords = 0
  /\ call.has_header = <<TRUE>>
  /\ result = Return(FALSE)
  /\ console = << [kind |-> "warning"] >>

---------------------------------------------------------------------------
(* C8 *)

\* The number of records preview_csv samples
SampleSize == 
  IF call.max_rows = 0 THEN NumRecords ELSE Min(call.max_rows, NumRecords)

\* A row number below 100 as it is printed
RowNumeral(n) ==
  IF n < 10 THEN <<DigitChars[n + 1]>>
  ELSE <<DigitChars[(n \div 10) + 1], DigitChars[(n % 10) + 1]>>

\* C8: every data row preview_csv displays carries its true 1-based row
\* number: with the header flag true the first sampled row gives the column
\* labels and rows 2..k are shown in order labelled 2..k; with the flag
\* false rows 1..k are shown in order labelled 1..k.
C8_TrueRowNumbers ==
  (call.op = "preview_csv" /\ console # <<>> /\ console[1].kind = "table") =>
    LET tbl == console[1]
        first == IF result.val THEN 2 ELSE 1
    IN /\ Len(tbl.rows) = SampleSize - first + 1
       /\ \A j \in 1..Len(tbl.rows) :
            /\ tbl.rows[j].label = RowNumeral(first + j - 1)
            /\ SubSeq(tbl.rows[j].cells, 1, Len(file.rows[first + j - 1]))
                 = TrimmedRecord(first + j - 1)
       /\ result.val =>
            \A c \in 1..Len(file.rows[1]) :
              tbl.columns[c].name = Trimmed(file.rows[1][c])

\* A partial sample under a header: rows 2 and 3 of a longer file
C8_Witness ==
  /\ call.op = "preview_csv"
  /\ call.max_rows = 3
  /\ NumRecords >= 5
  /\ result = Return(TRUE)
  /\ console # <<>> /\ console[1].kind = "table"
  /\ Len(console[1].rows) = 2
  /\ console[1].rows[1].label = <<"2">>
  /\ console[1].rows[2].label = <<"3">>

---------------------------------------------------------------------------
(* C9 *)

\* C9: every cell read_csv_rows returns has no leading and no trailing
\* whitespace and is the corresponding field of the file with its
\* surrounding whitespace removed; trimming changes neither the number of
\* rows nor the number of cells of a row.
C9_CellsTrimmed ==
  (call.op = "read_csv_rows" /\ result.ok) =>
    /\ Len(result.val) <= NumRecords
    /\ call.max_rows = <<>> => Len(result.val) = NumRecords
    /\ \A n \in 1..Len(result.val) :
         /\ Len(result.val[n]) = Len(file.rows[n])
         /\ \A c \in 1..Len(result.val[n]) :
              LET cell == result.val[n][c] IN
                /\ cell = Trimmed(file.rows[n][c])
                /\ cell # <<>> =>
                     /\ cell[1] \notin Whitespace
                     /\ cell[Len(cell)] \notin Whitespace

\* A padded field with inner whitespace, read back trimmed at both ends
C9_Witness ==
  /\ call.op = "read_csv_rows"
  /\ result.ok
  /\ \E n \in 1..Len(result.val) :
       \E c \in 1..Len(result.val[n]) :
         /\ file.rows[n][c] = <<"x", " ", "y", " ">>
         /\ result.val[n][c] = <<"x", " ", "y">>

---------------------------------------------------------------------------
(* C10 *)

Called == call.op # "none"

Undecodable == file.exists /\ file.bad # 0

\* Calls that scan the whole file
FullScan ==
  \/ call.op \in {"count_csv_rows", "auto_detect_data_range", "preview_csv"}
  \/ call.op = "read_csv_rows" /\ ~Truthy(call.max_rows)

\* The number of records a bounded read asks the reader for: the rows it
\* keeps and the one it fetches before it stops
Fetched ==
  IF call.op = "read_csv_rows" THEN call.max_rows[1] + 1
  ELSE IF call.op = "detect_header_row" THEN HeaderSampleRows + 1
  ELSE ColumnSampleRows + 1

\* C10 as stated: every operation that reads the file fails with a
\* file-access error when the path cannot be opened and with an encoding
\* error when the byte stream is not valid UTF-8, and returns no partial
\* result.
C10_AlwaysFails ==
  Called =>
    /\ ~file.exists => result = Raise("FileNotFoundError") /\ console = <<>>
    /\ Undecodable => result = Raise("UnicodeDecodeError") /\ console = <<>>

\* C10 (amended): every operation fails with a file-access error when the
\* path cannot be opened. On a byte stream that is not valid UTF-8 the
\* operations that scan the whole file (unbounded read, count, auto range,
\* preview) always fail with an encoding error, and a bounded read of
\* max_rows = k >= 1 records (the header detector and the column counter
\* read 5) fails at least when the undecodable bytes lie within the first
\* k + 1 records; nothing is printed and no value is returned by a call
\* that fails.
C10_FailsWhereDecoded ==
  Called =>
    /\ ~file.exists => result = Raise("FileNotFoundError")
    /\ (Undecodable /\ FullScan) => result = Raise("UnicodeDecodeError")
    /\ (Undecodable /\ ~FullScan /\ file.bad <= Fetched) =>
         result = Raise("UnicodeDecodeError")
    /\ ~result.ok => console = <<>> /\ result.val = <<>>

\* The preview's sample is read without error, and the full count then fails
C10_Witness ==
  /\ call.op = "preview_csv"
  /\ call.max_rows = 1
  /\ Undecodable
  /\ read_csv_rows(file, <<1>>).ok
  /\ result = Raise("UnicodeDecodeError")
  /\ console = <<>>

---------------------------------------------------------------------------
(* C11 *)

---------------------------------------------------------------------------
(* C12 *)

\* The column numbers the 10-row preview shows: 1 .. the largest cell count
\* among the first min(10, N) records
PreviewColumns == 1..WidestAmong(Min(10, NumRecords))

AtColumnPrompt ==
  wiz.pc \in {"name_column", "affiliation_column", "country_column",
              "row_range"}

\* C12: in the wizard a column reference k is accepted by the column prompts
\* if and only if k is one of the column numbers 1..C the 10-row preview
\* shows, C being the largest cell count among the first min(10, N) rows.
C12_PromptsAcceptPreviewColumns ==
  AtColumnPrompt =>
    /\ wiz.shown = Cardinality(PreviewColumns)
    /\ wiz.last # <<>> =>
         \A k \in 1..9 :
           wiz.last[1].input = <<DigitChars[k + 1]>> =>
             (wiz.last[1].value = <<k>> <=> k \in PreviewColumns)

\* The preview shows a third column, set by the sixth row, and the answer 3
\* is turned down
C12_ShownColumnRefused ==
  /\ AtColumnPrompt
  /\ wiz.shown = 3
  /\ wiz.num_columns = 2
  /\ wiz.last # <<>>
  /\ wiz.last[1].input = <<"3">>
  /\ wiz.last[1].value = <<>>

---------------------------------------------------------------------------
(* C13 *)

InRange(column) ==
  /\ column # <<>>
  /\ 1 <= column[1] /\ column[1] <= wiz.num_columns

\* C13: the name and affiliation prompts are left only with a value the
\* validator returned, so from the row-range step on name_column and
\* affiliation_column are integers in [1, num_columns] and country_column
\* is absent or such an integer; with num_columns = 0 the wizard never gets
\* past the name prompt.
C13_ColumnsValidated ==
  /\ wiz.pc \in {"affiliation_column", "country_column", "row_range",
                 "rows_confirm"} =>
       /\ InRange(wiz.name_column)
       /\ wiz.num_columns = WidestAmong(Min(5, NumRecords))
       /\ wiz.num_columns > 0
  /\ wiz.pc \in {"country_column", "row_range", "rows_confirm"} =>
       InRange(wiz.affiliation_column)
  /\ wiz.pc \in {"row_range", "rows_confirm"} =>
       (wiz.country_column = <<>> \/ InRange(wiz.country_column))

\* The row range is reached with three validated columns, after answers
C13_Witness ==
  /\ wiz.pc = "rows_confirm"
  /\ wiz.name_column = <<1>>
  /\ wiz.affiliation_column = <<2>>
  /\ wiz.country_column = <<3>>
  /\ wiz.num_columns = 3
  /\ wiz.end_row = NumRecords

====
